---- MODULE Spec2Model ----
(***************************************************************************)
(* A model of chatgpt_scrape_airbnb.py: the two-stage crawl of scrape_all. *)
(* Stage 1 runs collect_listing_urls over every search URL, one page       *)
(* session at a time; stage 2 runs one worker per listing URL under an     *)
(* asyncio.Semaphore, each worker running extract_listing in a page        *)
(* session of its own.                                                     *)
(*                                                                         *)
(* Strings are sequences of tokens (a URL is <<"/rooms/", "1", "?", "a">>) *)
(* so that split("?")[0], strip() and the "in" test are computed.          *)
(* The scraped web site is the variable site: Init draws it, no action     *)
(* changes it.  A page operation that the code does not guard (goto, the   *)
(* counts, the waits, the scroll, the evaluations, page.title, new_page in *)
(* a worker) may raise at any call; an element whose guarded read raises   *)
(* is a Broken element of the page.  page.close() may raise too; a page    *)
(* session counts as open from the return of context.new_page() until      *)
(* page.close() is awaited on it, whatever the outcome of that call.       *)
(* browser.close() and the launch of the browser are taken to succeed.     *)
(***************************************************************************)
EXTENDS Integers, Sequences, FiniteSets, TLC

VARIABLES
    site,              \* the scraped world: search_urls and the pages' behaviour
    pc,                \* position of scrape_all
    search_urls,       \* scrape_all: search_urls
    exc,               \* an exception is propagating in scrape_all
    si,                \* index in search_urls of `for search_url in search_urls`
    page,              \* scrape_all: page (NoPage before new_page)
    seen,              \* collect_listing_urls: seen
    last_height,       \* collect_listing_urls: last_height
    cstat,             \* collect_listing_urls: what the page session was asked
    all_listing_urls,  \* scrape_all: all_listing_urls
    pages,             \* context.new_page(): the page sessions opened so far
    sem,               \* the value of asyncio.Semaphore(MAX_CONCURRENT_PAGES)
    wpc,               \* position of worker(listing_url), per index of the list
    wexc,              \* an exception is propagating in the worker
    wpage,             \* worker: page (NoPage before new_page)
    data,              \* extract_listing: data
    loc,               \* extract_listing: its other local variables
    ops,               \* the page operations each worker's session was asked
    results,           \* scrape_all: results
    csv                \* the rows of OUTPUT_CSV, <<"absent">> until it is opened

vars == <<site, pc, search_urls, exc, si, page, seen, last_height, cstat, all_listing_urls, pages,
          sem, wpc, wexc, wpage, data, loc, ops, results, csv>>

searchVars == <<seen, last_height, cstat>>
workerVars == <<sem, wpc, wexc, wpage, data, loc, ops, results>>

----------------------------------------------------------------------------
\* Configuration (environment variables of the run) and bounds of the model.

\* MAX_CONCURRENT_PAGES = int(os.getenv("MAX_CONCURRENT_PAGES", "8")): run with 2
MAX_CONCURRENT_PAGES == 2

\* MAX_LISTINGS_PER_SEARCH = int(os.getenv("MAX_LISTINGS_PER_SEARCH", "200")): run with 2
MAX_LISTINGS_PER_SEARCH == 2

\* A search page stops changing after at most MaxGrowth scrolls.
MaxGrowth == 2

----------------------------------------------------------------------------
\* Strings

Min(a, b) == IF a < b THEN a ELSE b

Range(s) == {s[i] : i \in 1..Len(s)}

\* s.split("?")[0]: the part of s before its first "?"
SplitQuery(s) ==
    LET qs == {i \in 1..Len(s) : s[i] = "?"}
    IN  IF qs = {} THEN s
        ELSE SubSeq(s, 1, (CHOOSE i \in qs : \A j \in qs : i <= j) - 1)

\* "/rooms/" in h
HasRooms(h) == \E i \in 1..Len(h) : h[i] = "/rooms/"

\* Every list holding each element of S once: the orders list(S) may give
\* for a Python set of strings (the order follows the strings' hashes).
ListsOf(S) ==
    {f \in [1..Cardinality(S) -> S] : \A i, j \in 1..Cardinality(S) : f[i] = f[j] => i = j}

\* s[:n]
Take(s, n) == SubSeq(s, 1, Min(n, Len(s)))

\* A variant that keeps the last occurrence of each element.
RECURSIVE FromKeys_Last(_)
FromKeys_Last(s) ==
    IF s = <<>> THEN <<>>
    ELSE LET r == FromKeys_Last(Tail(s))
         IN  IF Head(s) \in Range(r) THEN r ELSE <<Head(s)>> \o r

\* list(dict.fromkeys(s)): the first occurrence of each element, in order
RECURSIVE FromKeys(_)
FromKeys(s) ==
    IF s = <<>> THEN <<>>
    ELSE LET r == FromKeys(SubSeq(s, 1, Len(s) - 1))
             x == s[Len(s)]
         IN  IF x \in Range(r) THEN r ELSE Append(r, x)

\* line.strip(): s without its leading and trailing whitespace
IsSpace(c) == c \in {" ", "\n", "\t"}

Strip(s) ==
    LET keep == {i \in 1..Len(s) : ~IsSpace(s[i])}
    IN  IF keep = {} THEN <<>>
        ELSE SubSeq(s, CHOOSE i \in keep : \A j \in keep : i <= j,
                       CHOOSE i \in keep : \A j \in keep : j <= i)

----------------------------------------------------------------------------
\* Text: a sequence of characters.  The character classes of Python's re.

Upper == {"A", "B", "C", "D", "E", "F", "G", "H", "I", "J", "K", "L", "M",
          "N", "O", "P", "Q", "R", "S", "T", "U", "V", "W", "X", "Y", "Z"}
Lower == {"a", "b", "c", "d", "e", "f", "g", "h", "i", "j", "k", "l", "m",
          "n", "o", "p", "q", "r", "s", "t", "u", "v", "w", "x", "y", "z",
          "ô"}
DigitChars == <<"0", "1", "2", "3", "4", "5", "6", "7", "8", "9">>
Digit == Range(DigitChars)

\* \w, \d, \s (a no-break space is whitespace for \s on a str pattern)
IsWord(c) == c \in Upper \cup Lower \cup Digit \cup {"_", "Ô"}
IsDigit(c) == c \in Digit
IsWhite(c) == c \in {" ", "\n", "\t", "nbsp"}

\* \b at the gap before position i of t (1 <= i <= Len(t) + 1)
Boundary(t, i) ==
    LET before == i > 1 /\ IsWord(t[i - 1])
        after == i <= Len(t) /\ IsWord(t[i])
    IN  before # after

\* the characters t[i], ..., t[i + n - 1] exist and are all in class
AllIn(t, i, n, class) == i + n - 1 <= Len(t) /\ \A k \in i..(i + n - 1) : t[k] \in class

\* The least element of a non-empty set of integers, the greatest one.
Least(S) == CHOOSE x \in S : \A y \in S : x <= y
Greatest(S) == CHOOSE x \in S : \A y \in S : y <= x

\* IGNORECASE: c matches the pattern character p (a lower-case letter)
SameLetter(c, p) ==
    \/ c = p
    \/ \E k \in 1..26 : /\ c = <<"A", "B", "C", "D", "E", "F", "G", "H", "I", "J", "K", "L", "M", "N", "O", "P", "Q", "R", "S", "T", "U", "V", "W", "X", "Y", "Z">>[k]
                        /\ p = <<"a", "b", "c", "d", "e", "f", "g", "h", "i", "j", "k", "l", "m", "n", "o", "p", "q", "r", "s", "t", "u", "v", "w", "x", "y", "z">>[k]
    \/ c = "Ô" /\ p = "ô"

\* the literal lit stands in t at position i (case == TRUE: exactly)
LiteralAt(t, i, lit, case) ==
    /\ i + Len(lit) - 1 <= Len(t)
    /\ \A k \in 1..Len(lit) :
          IF case THEN t[i + k - 1] = lit[k] ELSE SameLetter(t[i + k - 1], lit[k])

\* the length of the longest run of characters of class that starts at i
RunLen(t, i, class) ==
    Greatest({n \in 0..(Len(t) - i + 1) : AllIn(t, i, n, class)})

\* int(s) for a string of decimal digits, and str(n)
RECURSIVE ParseInt(_)
ParseInt(s) ==
    IF s = <<>> THEN 0
    ELSE 10 * ParseInt(SubSeq(s, 1, Len(s) - 1))
         + (CHOOSE d \in 0..9 : DigitChars[d + 1] = s[Len(s)])

RECURSIVE Str(_)
Str(n) == IF n < 0 THEN <<"-">> \o Str(0 - n)
          ELSE IF n < 10 THEN <<DigitChars[n + 1]>>
          ELSE Append(Str(n \div 10), DigitChars[(n % 10) + 1])

\* A variant without the floor at zero.
Max0_Raw(n) == n

\* max(0, n)
Max0(n) == IF n < 0 THEN 0 ELSE n

----------------------------------------------------------------------------
\* extract_license_from_text, lines 91-106

\* the lengths n for which \b[A-Z]{3}-[A-Z]{3}-[A-Z0-9]{n}\b matches at i
StructuredAt(t, i) ==
    {n \in 4..6 :
        /\ Boundary(t, i)
        /\ AllIn(t, i, 3, Upper)
        /\ LiteralAt(t, i + 3, <<"-">>, TRUE)
        /\ AllIn(t, i + 4, 3, Upper)
        /\ LiteralAt(t, i + 7, <<"-">>, TRUE)
        /\ AllIn(t, i + 8, n, Upper \cup Digit)
        /\ Boundary(t, i + 8 + n)}

\* the lengths n for which \b\d{n}\b matches at i
DigitsAt(t, i) ==
    {n \in 6..8 : Boundary(t, i) /\ AllIn(t, i, n, Digit) /\ Boundary(t, i + n)}

\* A variant that returns the match of either pattern that starts first.
extract_license_from_text_Leftmost(text) ==
    LET ms == {i \in 1..Len(text) : StructuredAt(text, i) # {}}
        md == {i \in 1..Len(text) : DigitsAt(text, i) # {}}
    IN  IF ms # {} /\ (md = {} \/ Least(ms) < Least(md))
        THEN SubSeq(text, Least(ms), Least(ms) + 7 + Greatest(StructuredAt(text, Least(ms))))
        ELSE IF md # {}
        THEN SubSeq(text, Least(md), Least(md) + Greatest(DigitsAt(text, Least(md))) - 1)
        ELSE <<>>

extract_license_from_text(text) ==
    LET ms == {i \in 1..Len(text) : StructuredAt(text, i) # {}}
        md == {i \in 1..Len(text) : DigitsAt(text, i) # {}}
    IN  IF ms # {}
        THEN SubSeq(text, Least(ms), Least(ms) + 7 + Greatest(StructuredAt(text, Least(ms))))
        ELSE IF md # {}
        THEN SubSeq(text, Least(md), Least(md) + Greatest(DigitsAt(text, Least(md))) - 1)
        ELSE <<>>

----------------------------------------------------------------------------
\* parse_host_stats, lines 109-143

\* (\d+(?:[.,]\d+)?)\s*sur\s*5 at i: the length of group 1, or {} (no match)
RatingAt(t, i) ==
    LET d == RunLen(t, i, Digit)
        f == IF i + d <= Len(t) /\ t[i + d] \in {".", ","}
             THEN RunLen(t, i + d + 1, Digit) ELSE 0
        tail(j) == LET w == RunLen(t, j, {c \in Range(t) : IsWhite(c)})
                   IN  /\ LiteralAt(t, j + w, <<"s", "u", "r">>, TRUE)
                       /\ LET v == RunLen(t, j + w + 3, {c \in Range(t) : IsWhite(c)})
                          IN  \E u \in 0..v : LiteralAt(t, j + w + 3 + u, <<"5">>, TRUE)
    IN  IF d = 0 THEN {}
        ELSE IF f > 0 /\ tail(i + d + 1 + f) THEN {d + 1 + f}
        ELSE IF tail(i + d) THEN {d}
        ELSE {}

\* m.group(1).replace(",", ".")
ReplaceComma(s) == [k \in 1..Len(s) |-> IF s[k] = "," THEN "." ELSE s[k]]

\* (\d[\d\s ]*)\s+commentaire at i, IGNORECASE: the length of group 1, or {}
ReviewsAt(t, i) ==
    LET r == RunLen(t, i, {c \in Range(t) : IsDigit(c) \/ IsWhite(c)})
    IN  IF /\ i <= Len(t)
           /\ IsDigit(t[i])
           /\ r >= 2
           /\ IsWhite(t[i + r - 1])
           /\ LiteralAt(t, i + r, <<"c", "o", "m", "m", "e", "n", "t", "a", "i", "r", "e">>, FALSE)
        THEN {r - 1}
        ELSE {}

\* re.sub(r"[^\d]", "", s)
RECURSIVE OnlyDigits(_)
OnlyDigits(s) ==
    IF s = <<>> THEN <<>>
    ELSE IF IsDigit(s[1]) THEN <<s[1]>> \o OnlyDigits(Tail(s))
    ELSE OnlyDigits(Tail(s))

\* H[oô]te depuis\s+(\d{4}) at i, IGNORECASE: the position of group 1, or {}
SinceAt(t, i) ==
    LET j == i + 11
        w == RunLen(t, j, {c \in Range(t) : IsWhite(c)})
    IN  IF /\ LiteralAt(t, i, <<"h">>, FALSE)
           /\ (LiteralAt(t, i + 1, <<"o">>, FALSE) \/ LiteralAt(t, i + 1, <<"ô">>, FALSE))
           /\ LiteralAt(t, i + 2, <<"t", "e">>, FALSE)
           /\ LiteralAt(t, i + 4, <<" ">>, TRUE)
           /\ LiteralAt(t, i + 5, <<"d", "e", "p", "u", "i", "s">>, FALSE)
           /\ w >= 1
           /\ AllIn(t, j + w, 4, Digit)
        THEN {j + w}
        ELSE {}

parse_host_stats(text, current_year) ==
    LET mr == {i \in 1..Len(text) : RatingAt(text, i) # {}}
        mc == {i \in 1..Len(text) : ReviewsAt(text, i) # {}}
        my == {i \in 1..Len(text) : SinceAt(text, i) # {}}
        group(i, lens) == SubSeq(text, i, i + Least(lens) - 1)
    IN  [host_rating |->
            IF mr = {} THEN <<>>
            ELSE ReplaceComma(group(Least(mr), RatingAt(text, Least(mr)))),
         host_reviews_count |->
            IF mc = {} THEN <<>>
            ELSE OnlyDigits(group(Least(mc), ReviewsAt(text, Least(mc)))),
         host_years |->
            IF my = {} THEN <<>>
            ELSE LET g == Least(SinceAt(text, Least(my)))
                 IN  Str(Max0(current_year - ParseInt(SubSeq(text, g, g + 3))))]

----------------------------------------------------------------------------
\* The scraped world

S1 == <<"s1">>
S2 == <<"s2">>
SearchURLs == {S1, S2}

R1  == <<"/rooms/", "1">>
R1a == <<"/rooms/", "1", "?", "a">>
R2b == <<"/rooms/", "2", "?", "b">>
R3  == <<"/rooms/", "3">>
\* an anchor whose attribute matches a[href*="/rooms/"] and whose resolved
\* e.href does not hold the marker (href="/rooms/../x")
X   == <<"/x">>
HrefPool == {R1, R1a, R2b, R3, X}

Heights == {700, 900}

\* A search page: anchor h is in the DOM once appear[h] scrolls were made
\* (MaxGrowth + 1: never), and document.body.scrollHeight is heights[k] after
\* k scrolls; nothing changes after MaxGrowth scrolls (a finite page).
SearchPages ==
    [appear : [HrefPool -> 0..(MaxGrowth + 1)], heights : [0..MaxGrowth -> Heights]]

\* cards.evaluate_all("els => Array.from(new Set(els.map(e => e.href)))")
AnchorHrefs(pg, k) == {h \in HrefPool : pg.appear[h] <= k}

\* page.evaluate("() => document.body.scrollHeight")
ScrollHeight(pg, k) == pg.heights[Min(k, MaxGrowth)]

\* The page session open for the current search URL.
SearchPage == site.search[search_urls[si]]

----------------------------------------------------------------------------
\* Page sessions.  A unit of work is the processing of one search URL or of
\* one listing URL; it calls context.new_page() at most once, and the session
\* it is given is named after it.  pages[p] tells whether session p is open
\* and which units of work asked it an operation.

Unit(kind, i) == [kind |-> kind, idx |-> i]

NoPage == Unit("none", 0)

NewPage(owner) ==
    [p \in DOMAIN pages \cup {owner} |->
        IF p = owner THEN [open |-> TRUE, users |-> {}] ELSE pages[p]]

UsePage(p, unit) == [pages EXCEPT ![p].users = @ \cup {unit}]

\* A variant in which page.close() has no effect.
ClosePage_Skip(p) == pages

\* await page.close()
ClosePage(p) == [pages EXCEPT ![p].open = FALSE]

\* A variant without the finally: the session is closed only when the block
\* did not raise.
CloseOnExit_OnSuccess(p, raised) == IF raised THEN pages ELSE ClosePage(p)

\* try: ... finally: await page.close(): the session is closed whether the
\* try block raised or not (lines 252-256 and 270-274)
CloseOnExit(p, raised) == ClosePage(p)

----------------------------------------------------------------------------
\* Stage 1: collect_listing_urls(page, search_url), lines 30-58, inside the
\* loop of scrape_all, lines 250-256.

NoStat == [gotos |-> 0, harvests |-> 0, scrolls |-> 0, reads |-> 0,
           harvested |-> {}, stop |-> "none", returned |-> <<>>]

\* for h in hrefs: if "/rooms/" in h: seen.add(h.split("?")[0])
AddHrefs(s, hrefs) == s \cup {SplitQuery(h) : h \in {g \in hrefs : HasRooms(g)}}

\* A variant that stops only above the cap.
EnoughSeen_Strict(s) == Cardinality(s) > MAX_LISTINGS_PER_SEARCH

\* if len(seen) >= MAX_LISTINGS_PER_SEARCH: break
EnoughSeen(s) == Cardinality(s) >= MAX_LISTINGS_PER_SEARCH

\* A variant that stops when the page has not grown.
HeightUnchanged_NotGrown(new_height, last) == new_height <= last

\* A variant that also stops on a page that is tall enough.
HeightUnchanged_OrTall(new_height, last) == new_height = last \/ new_height >= 900

\* if new_height == last_height: break
HeightUnchanged(new_height, last) == new_height = last

\* A variant that returns list(seen) whole.
Returned_NoSlice(s) == ListsOf(s)

\* return list(seen)[:MAX_LISTINGS_PER_SEARCH]
Returned(s) == {Take(l, MAX_LISTINGS_PER_SEARCH) : l \in ListsOf(s)}

\* A page operation of collect_listing_urls raised: nothing catches it in
\* collect_listing_urls, and scrape_all only has a finally.
SearchRaise(st) ==
    /\ exc' = TRUE
    /\ pc' = "close_page"
    /\ cstat' = [st EXCEPT !.stop = "raise"]
    /\ UNCHANGED <<seen, last_height, all_listing_urls>>

\* return list(seen)[:MAX_LISTINGS_PER_SEARCH], then in scrape_all
\* all_listing_urls.extend(listing_urls)
SearchReturn(st, why) ==
    \E l \in Returned(seen') :
        /\ all_listing_urls' = all_listing_urls \o l
        /\ cstat' = [st EXCEPT !.stop = why, !.returned = Append(@, l)]
        /\ pc' = "close_page"
        /\ UNCHANGED exc

\* page = await context.new_page()
SearchNewPage ==
    /\ pc = "new_page"
    /\ pages' = NewPage(Unit("search", si))
    /\ page' = Unit("search", si)
    /\ pc' = "goto"
    /\ UNCHANGED <<site, search_urls, exc, si, searchVars, all_listing_urls,
                   workerVars, csv>>

\* await page.goto(search_url, wait_until="networkidle"); seen = set(); last_height = -1
SearchGoto ==
    /\ pc = "goto"
    /\ pages' = UsePage(page, Unit("search", si))
    /\ LET st == [cstat EXCEPT !.gotos = @ + 1]
       IN  \/ /\ seen' = {}
              /\ last_height' = -1
              /\ cstat' = st
              /\ pc' = "harvest"
              /\ UNCHANGED <<exc, all_listing_urls>>
           \/ SearchRaise(cstat)
    /\ UNCHANGED <<site, search_urls, si, page, workerVars, csv>>

\* hrefs = await cards.evaluate_all(...), the for loop and the "stop if enough" test
SearchHarvest ==
    /\ pc = "harvest"
    /\ pages' = UsePage(page, Unit("search", si))
    /\ LET hrefs == AnchorHrefs(SearchPage, cstat.scrolls)
           st == [cstat EXCEPT !.harvests = @ + 1]
       IN  \/ /\ seen' = AddHrefs(seen, hrefs)
              /\ UNCHANGED last_height
              /\ LET st2 == [st EXCEPT !.harvested = @ \cup hrefs]
                 IN  IF EnoughSeen(seen')
                     THEN SearchReturn(st2, "cap")
                     ELSE /\ cstat' = st2
                          /\ pc' = "scroll"
                          /\ UNCHANGED <<exc, all_listing_urls>>
           \/ SearchRaise(cstat)
    /\ UNCHANGED <<site, search_urls, si, page, workerVars, csv>>

\* await page.mouse.wheel(0, 1500); await page.wait_for_timeout(1000)
SearchScroll ==
    /\ pc = "scroll"
    /\ pages' = UsePage(page, Unit("search", si))
    /\ LET st == [cstat EXCEPT !.scrolls = @ + 1]
       IN  \/ /\ cstat' = st
              /\ pc' = "read_height"
              /\ UNCHANGED <<exc, seen, last_height, all_listing_urls>>
           \/ SearchRaise(cstat)
    /\ UNCHANGED <<site, search_urls, si, page, workerVars, csv>>

\* new_height = await page.evaluate(...); the height test; last_height = new_height
SearchReadHeight ==
    /\ pc = "read_height"
    /\ pages' = UsePage(page, Unit("search", si))
    /\ LET new_height == ScrollHeight(SearchPage, cstat.scrolls)
           st == [cstat EXCEPT !.reads = @ + 1]
       IN  \/ /\ HeightUnchanged(new_height, last_height)
              /\ UNCHANGED <<seen, last_height>>
              /\ SearchReturn(st, "height")
           \/ /\ ~HeightUnchanged(new_height, last_height)
              /\ last_height' = new_height
              /\ cstat' = st
              /\ pc' = "harvest"
              /\ UNCHANGED <<exc, seen, all_listing_urls>>
           \/ SearchRaise(cstat)
    /\ UNCHANGED <<site, search_urls, si, page, workerVars, csv>>

\* finally: await page.close(); then the next search URL, or the exception
\* leaves scrape_all; page.close() may raise, and its exception leaves
\* scrape_all
SearchClosePage ==
    /\ pc = "close_page"
    /\ pages' = CloseOnExit(page, exc)
    /\ \/ /\ IF exc THEN /\ pc' = "failed"
                         /\ UNCHANGED <<si, cstat>>
             ELSE IF si < Len(search_urls)
                  THEN /\ si' = si + 1
                       /\ cstat' = [NoStat EXCEPT !.returned = cstat.returned]
                       /\ pc' = "new_page"
                  ELSE /\ pc' = "dedupe"
                       /\ UNCHANGED <<si, cstat>>
          /\ UNCHANGED exc
       \/ /\ exc' = TRUE
          /\ pc' = "failed"
          /\ UNCHANGED <<si, cstat>>
    /\ UNCHANGED <<site, search_urls, page, seen, last_height,
                   all_listing_urls, workerVars, csv>>

collect_listing_urls == SearchGoto \/ SearchHarvest \/ SearchScroll \/ SearchReadHeight

----------------------------------------------------------------------------
\* collect_listing_urls on its own: one search URL, every search page of
\* SearchPages, the page session already open.

NoSite == [search |-> [u \in {} |-> 0], listing |-> [u \in {} |-> 0], file |-> <<>>,
           year |-> 2026]

InitCollect ==
    /\ \E pg \in SearchPages : site = [NoSite EXCEPT !.search = [u \in {S1} |-> pg]]
    /\ pc = "goto"
    /\ search_urls = <<S1>>
    /\ exc = FALSE
    /\ si = 1
    /\ page = Unit("search", 1)
    /\ seen = {}
    /\ last_height = -1
    /\ cstat = NoStat
    /\ all_listing_urls = <<>>
    /\ pages = [p \in {Unit("search", 1)} |-> [open |-> TRUE, users |-> {}]]
    /\ sem = 0
    /\ wpc = <<>>
    /\ wexc = <<>>
    /\ wpage = <<>>
    /\ data = <<>>
    /\ loc = <<>>
    /\ ops = <<>>
    /\ results = <<>>
    /\ csv = <<"absent">>

SpecCollect == InitCollect /\ [][collect_listing_urls]_vars

\* The event loop resumes the only task there is once its page operation
\* has completed or raised.
SpecCollectFair == SpecCollect /\ WF_vars(collect_listing_urls)

Distinct(l) == \A i, j \in 1..Len(l) : l[i] = l[j] => i = j

CollectReturned == cstat.stop \in {"cap", "height"}

LastReturned == cstat.returned[Len(cstat.returned)]

\* C7: whatever the page does, the list collect_listing_urls returns holds at
\* most MAX_LISTINGS_PER_SEARCH URLs, no URL twice, and each is the
\* query-stripped form of an href that a harvest pass of this call read.
C7_ReturnedCappedDistinctStripped ==
    CollectReturned =>
        /\ Len(LastReturned) <= MAX_LISTINGS_PER_SEARCH
        /\ Distinct(LastReturned)
        /\ \A i \in 1..Len(LastReturned) :
               \E h \in cstat.harvested :
                   /\ LastReturned[i] = SplitQuery(h)
                   /\ "?" \notin Range(LastReturned[i])

\* C7 witness: a call returned while seen held more than the cap, and one of
\* the harvested hrefs had a query string.
C7_Witness ==
    /\ CollectReturned
    /\ Cardinality(seen) > MAX_LISTINGS_PER_SEARCH
    /\ Len(LastReturned) = MAX_LISTINGS_PER_SEARCH
    /\ \E h \in cstat.harvested : HasRooms(h) /\ SplitQuery(h) # h

\* The listing anchors of the first harvest pass, and their stripped forms.
FirstPassListing == {h \in AnchorHrefs(SearchPage, 0) : HasRooms(h)}
FirstPassStripped == {SplitQuery(h) : h \in FirstPassListing}

CapStopNoScroll ==
    /\ cstat.stop = "cap"
    /\ Len(LastReturned) = MAX_LISTINGS_PER_SEARCH
    /\ Distinct(LastReturned)
    /\ cstat.scrolls = 0
    /\ cstat.reads = 0

\* C8 as stated: once the first harvest pass has read at least
\* MAX_LISTINGS_PER_SEARCH listing anchors, the call has returned exactly
\* MAX_LISTINGS_PER_SEARCH distinct URLs without a scroll or a height read.
C8_AsStated ==
    (cstat.harvests >= 1 /\ Cardinality(FirstPassListing) >= MAX_LISTINGS_PER_SEARCH)
        => CapStopNoScroll

\* C8 amended: the same when the anchors of the first pass have at least
\* MAX_LISTINGS_PER_SEARCH pairwise distinct query-stripped hrefs.
C8_CapOnFirstPass ==
    (cstat.harvests >= 1 /\ Cardinality(FirstPassStripped) >= MAX_LISTINGS_PER_SEARCH)
        => CapStopNoScroll

\* C8 witness: the first pass read more listing anchors than distinct
\* stripped URLs, still enough of these, and the call returned at once.
C8_Witness ==
    /\ cstat.harvests = 1
    /\ cstat.stop = "cap"
    /\ Cardinality(FirstPassStripped) >= MAX_LISTINGS_PER_SEARCH
    /\ Cardinality(FirstPassListing) > Cardinality(FirstPassStripped)
    /\ cstat.scrolls = 0

\* The scroll height of pg changes at each of the first n scrolls and at none
\* of the later ones.
StopsChangingAfter(pg, n) ==
    /\ \A k \in 1..n : pg.heights[k] # pg.heights[k - 1]
    /\ \A k \in (n + 1)..MaxGrowth : pg.heights[k] = pg.heights[k - 1]

\* The loop is over after exactly r height reads, the last of which stopped it.
StopsAtRead(r) ==
    /\ cstat.reads <= r
    /\ cstat.stop = "height" => cstat.reads = r
    /\ cstat.reads = r => cstat.stop = "height"

\* C9 as stated: on a page whose height stops changing after N scrolls
\* (N >= 0), the loop ends at the (N+1)-th height read unless the cap or an
\* exception ended it before.
C9_AsStated ==
    \A n \in 0..MaxGrowth : StopsChangingAfter(SearchPage, n) => StopsAtRead(n + 1)

\* C9 amended: the loop ends at the (N+1)-th height read when N >= 1, and at
\* the second height read when N = 0: the first read is compared with the
\* initial last_height = -1 and never ends the loop.
C9_StopsAtReadAfterConvergence ==
    \A n \in 0..MaxGrowth :
        StopsChangingAfter(SearchPage, n) => StopsAtRead(IF n = 0 THEN 2 ELSE n + 1)

\* C9 witness: a page whose height never changes was read twice, and a page
\* whose height changed at every scroll it can was read MaxGrowth + 1 times.
C9_Witness ==
    /\ cstat.stop = "height"
    /\ \/ StopsChangingAfter(SearchPage, 0) /\ cstat.reads = 2
       \/ StopsChangingAfter(SearchPage, MaxGrowth) /\ cstat.reads = MaxGrowth + 1

\* C10: on every finite page the scroll loop ends, and when it ends without
\* an exception it is because seen reached MAX_LISTINGS_PER_SEARCH or because
\* the height just read equals the height read before it; no count of
\* iterations ends it.
C10_StopReason ==
    /\ cstat.stop = "cap" => Cardinality(seen) >= MAX_LISTINGS_PER_SEARCH
    /\ cstat.stop = "height" =>
           /\ cstat.reads >= 2
           /\ ScrollHeight(SearchPage, cstat.scrolls) = last_height
           /\ ScrollHeight(SearchPage, cstat.scrolls - 1) = last_height
    /\ pc = "close_page" <=> cstat.stop # "none"

C10_LoopTerminates == [](C10_StopReason) /\ <>(pc = "close_page")

\* C10 witness: the loop ended by the height test after MaxGrowth + 1 reads,
\* on a page that grew as long as a page of the model can and that showed
\* new anchors after a scroll.
C10_Witness ==
    /\ cstat.stop = "height"
    /\ cstat.reads = MaxGrowth + 1
    /\ cstat.harvested # AnchorHrefs(SearchPage, 0)
    /\ seen # {}

----------------------------------------------------------------------------
\* Listing pages

\* No element matches the selector; an element matches and reading it raises
\* (it was detached, the read timed out).
Absent == <<"absent">>
Broken == <<"broken">>

T_H1    == <<" ", "L", "o", "f", "t", "\n">>
T_TITLE == <<"L", "o", "f", "t", " ", "|", " ", "B", "n", "b">>
B_LIC   == <<"n", "o", " ", "B", "U", "S", "-", "M", "A", "G", "-", "4", "2", "K", "D", "F", " ",
             "4", ",", "9", " ", "s", "u", "r", " ", "5">>
B_NUM   == <<"1", "3", "3", "3", "7", "0", "1", " ", "H", "ô", "t", "e", " ",
             "d", "e", "p", "u", "i", "s", " ", "2", "0", "3", "0">>
H_STATS == <<"H", "ô", "t", "e", " ", "d", "e", "p", "u", "i", "s", " ", "2", "0", "1", "5", "\n",
             "1", " ", "3", "7", "8", " ", "c", "o", "m", "m", "e", "n", "t", "a", "i", "r", "e", "s">>
N_HOST  == <<"A", "n", "n", "e", " ">>
N_LINK  == <<" ", "B", "o", "b">>
U_HOST  == <<"/users/", "7", "?", "s", "=", "1">>
U_LINK  == <<"/users/", "8">>

\* What a listing page shows: the number of buttons per "show more" label,
\* the first h1, the document title, the text of body, the number of sections
\* matching "Hôte" and "Votre hôte", the first such section's text, its first
\* h2/h3/span, the href of its first /users/ anchor, and the href and text
\* of the first /users/ anchor of the whole page.
PagesWithoutHost ==
    [buttons : {<<0, 0, 0>>, <<2, 0, 1>>},
     h1 : {Absent, Broken, T_H1, <<" ">>},
     title : {<<>>, T_TITLE},
     body : {Broken, <<>>, B_LIC, B_NUM},
     host : {<<0, 0>>},
     host_text : {Absent},
     host_name : {Absent},
     host_link : {Absent},
     fb_href : {Absent, U_LINK},
     fb_text : {<<>>, N_LINK}]

PagesWithHost ==
    [buttons : {<<0, 0, 0>>},
     h1 : {T_H1},
     title : {T_TITLE},
     body : {<<>>, B_LIC, B_NUM},
     host : {<<1, 0>>, <<0, 1>>},
     host_text : {Broken, <<>>, H_STATS},
     host_name : {Absent, Broken, N_HOST},
     host_link : {Absent, Broken, U_HOST},
     fb_href : {Absent, U_LINK},
     fb_text : {<<>>, N_LINK}]

ListingPages == PagesWithoutHost \cup PagesWithHost

\* dt.datetime.utcnow(): the model's clock gives the year
Years == {2026}

\* datetime.isoformat()
IsoFormat(year) == Str(year) \o <<"-", "0", "1", "-", "0", "1", "T", "0", "0", ":", "0", "0", ":", "0", "0">>

----------------------------------------------------------------------------
\* extract_listing(page, url), lines 146-231

Fields == {"listing_url", "listing_title", "license_code", "host_url", "host_name",
           "host_rating", "host_years", "host_reviews_count", "scraped_at"}

\* data = {"listing_url": url, ..., "scraped_at": dt.datetime.utcnow().isoformat()}
NewData(url, year) ==
    [k \in Fields |-> IF k = "listing_url" THEN url
                      ELSE IF k = "scraped_at" THEN IsoFormat(year)
                      ELSE <<>>]

\* nav records how page.goto ended: "ok", "timeout" (PlaywrightTimeoutError)
\* or "error" (any other exception)
NoLoc == [body_text |-> <<>>, host_text |-> <<>>, nav |-> "none"]

\* safe_inner_text: "" when nothing matches, else the first match's text, stripped
SafeInnerText(element) == IF element \in {Absent, Broken} THEN <<>> ELSE Strip(element)

\* try: x = await element.inner_text() except Exception: x = ""
TextOrEmpty(element) == IF element \in {Absent, Broken} THEN <<>> ELSE element

\* host_text or body_text
Or(a, b) == IF a # <<>> THEN a ELSE b

\* stats = parse_host_stats(host_text or body_text)
\* for k, v in stats.items(): if v and not data[k]: data[k] = v
MergeStats(d, host_text, body_text, year) ==
    LET stats == parse_host_stats(Or(host_text, body_text), year)
    IN  [k \in Fields |->
            IF k \in DOMAIN stats /\ stats[k] # <<>> /\ d[k] = <<>> THEN stats[k] ELSE d[k]]

\* the fallback of lines 213-223 runs
NeedsFallback(d) == d["host_name"] = <<>> \/ d["host_url"] = <<>>

\* if href: data["host_url"] = href.split("?")[0]; if text: data["host_name"] = text.strip()
ApplyFallback(d, href, text) ==
    [d EXCEPT !["host_url"] = IF href # <<>> THEN SplitQuery(href) ELSE @,
              !["host_name"] = IF text # <<>> THEN Strip(text) ELSE @]

ListingPage(j) == site.listing[all_listing_urls[j]]

Workers == DOMAIN wpc

mainVars == <<site, pc, search_urls, exc, si, page, seen, last_height, cstat,
              all_listing_urls, csv>>

\* The worker's page session is asked the operations os.
Ask(j, os) ==
    /\ ops' = [ops EXCEPT ![j] = @ \cup os]
    /\ pages' = UsePage(wpage[j], Unit("listing", j))

\* An exception leaves extract_listing: the worker goes to its finally.
WorkerRaise(j) ==
    /\ wexc' = [wexc EXCEPT ![j] = TRUE]
    /\ wpc' = [wpc EXCEPT ![j] = "close"]
    /\ UNCHANGED <<data, loc, results, sem, wpage>>

\* return data, then in worker: results.append(row)
WorkerReturn(j, d) ==
    /\ data' = [data EXCEPT ![j] = d]
    /\ results' = Append(results, d)
    /\ wpc' = [wpc EXCEPT ![j] = "close"]
    /\ UNCHANGED <<wexc, sem, wpage>>

\* the end of extract_listing, lines 225-231
WorkerFinish(j, d, host_text, body_text) ==
    WorkerReturn(j, MergeStats(d, host_text, body_text, site.year))

\* The worker goes on to the step at, with data d and locals l.
WorkerGoes(j, at, d, l) ==
    /\ data' = [data EXCEPT ![j] = d]
    /\ loc' = [loc EXCEPT ![j] = l]
    /\ wpc' = [wpc EXCEPT ![j] = at]
    /\ UNCHANGED <<wexc, results, sem, wpage>>

\* A variant whose handler is `pass`: the extraction goes on after a timeout.
OnTimeout_Continue(j) ==
    WorkerGoes(j, "click", data[j], [loc[j] EXCEPT !.nav = "timeout"])

\* A variant that navigates again after a timeout.
OnTimeout_Retry(j) ==
    WorkerGoes(j, "goto", data[j], [loc[j] EXCEPT !.nav = "timeout"])

\* except PlaywrightTimeoutError: return data
OnTimeout(j) ==
    /\ WorkerReturn(j, data[j])
    /\ loc' = [loc EXCEPT ![j].nav = "timeout"]

\* A variant whose slot is given back only when the block did not raise.
ReleaseOnExit_OnSuccess(value, raised) == IF raised THEN value ELSE value + 1

\* async with sem: sem.release() in __aexit__, whether the block raised or not
ReleaseOnExit(value, raised) == value + 1

\* A variant with no limiter: a slot is always granted.
SlotFree_Always(value) == TRUE

\* async with sem: sem.acquire() takes a slot at once when the value is positive
SlotFree(value) == value > 0

\* async with sem: the slot is free, or the worker waits for one
WStart(j) ==
    /\ wpc[j] = "init"
    /\ IF SlotFree(sem)
       THEN /\ sem' = sem - 1
            /\ wpc' = [wpc EXCEPT ![j] = "new_page"]
       ELSE /\ wpc' = [wpc EXCEPT ![j] = "waiting"]
            /\ UNCHANGED sem
    /\ UNCHANGED <<mainVars, pages, wexc, wpage, data, loc, ops, results>>

\* a waiting worker is given the slot another one released
WAcquire(j) ==
    /\ wpc[j] = "waiting"
    /\ SlotFree(sem)
    /\ sem' = sem - 1
    /\ wpc' = [wpc EXCEPT ![j] = "new_page"]
    /\ UNCHANGED <<mainVars, pages, wexc, wpage, data, loc, ops, results>>

\* page = await context.new_page(); it may raise: the slot is given back
WNewPage(j) ==
    /\ wpc[j] = "new_page"
    /\ \/ /\ pages' = NewPage(Unit("listing", j))
          /\ wpage' = [wpage EXCEPT ![j] = Unit("listing", j)]
          /\ wpc' = [wpc EXCEPT ![j] = "goto"]
          /\ data' = [data EXCEPT ![j] = NewData(all_listing_urls[j], site.year)]
          /\ UNCHANGED <<sem, wexc>>
       \/ /\ sem' = ReleaseOnExit(sem, TRUE)
          /\ wexc' = [wexc EXCEPT ![j] = TRUE]
          /\ wpc' = [wpc EXCEPT ![j] = "failed"]
          /\ UNCHANGED <<pages, wpage, data>>
    /\ UNCHANGED <<mainVars, loc, ops, results>>

\* await page.goto(url, wait_until="networkidle", timeout=60000)
\* except PlaywrightTimeoutError: return data
WGoto(j) ==
    /\ wpc[j] = "goto"
    /\ Ask(j, {"goto"})
    /\ \/ WorkerGoes(j, "click", data[j], [loc[j] EXCEPT !.nav = "ok"])
       \/ OnTimeout(j)
       \/ /\ wexc' = [wexc EXCEPT ![j] = TRUE]
          /\ wpc' = [wpc EXCEPT ![j] = "close"]
          /\ loc' = [loc EXCEPT ![j].nav = "error"]
          /\ UNCHANGED <<data, results, sem, wpage>>
    /\ UNCHANGED mainVars

\* await click_more_buttons(page), lines 61-78: buttons.count() for each of
\* the three labels, a click per button (a click that raises is skipped) and
\* wait_for_timeout(500); count and wait_for_timeout may raise
WClickMore(j) ==
    /\ wpc[j] = "click"
    /\ LET n == ListingPage(j).buttons
       IN  \/ /\ Ask(j, {"count", "wait"} \cup (IF n[1] + n[2] + n[3] > 0 THEN {"click"} ELSE {}))
              /\ WorkerGoes(j, "title", data[j], loc[j])
           \/ \E l \in 1..3 :
                 /\ Ask(j, {"count"} \cup (IF \E k \in 1..(l - 1) : n[k] > 0 THEN {"click"} ELSE {}))
                 /\ WorkerRaise(j)
           \/ /\ Ask(j, {"count", "wait"} \cup (IF n[1] + n[2] + n[3] > 0 THEN {"click"} ELSE {}))
              /\ WorkerRaise(j)
    /\ UNCHANGED mainVars

\* title = await safe_inner_text(page, "h1"); if not title: title = await page.title()
WTitle(j) ==
    /\ wpc[j] = "title"
    /\ LET h1 == SafeInnerText(ListingPage(j).h1)
       IN IF h1 # <<>>
          THEN /\ Ask(j, {"h1"})
               /\ WorkerGoes(j, "body", [data[j] EXCEPT !["listing_title"] = h1], loc[j])
          ELSE /\ Ask(j, {"h1", "title"})
               /\ \/ WorkerGoes(j, "body",
                                [data[j] EXCEPT !["listing_title"] = ListingPage(j).title], loc[j])
                  \/ WorkerRaise(j)
    /\ UNCHANGED mainVars

\* body_text = await page.inner_text("body") (except Exception: "") and
\* data["license_code"] = extract_license_from_text(body_text)
WBody(j) ==
    /\ wpc[j] = "body"
    /\ Ask(j, {"body"})
    /\ LET body_text == TextOrEmpty(ListingPage(j).body)
       IN WorkerGoes(j, "host",
                     [data[j] EXCEPT !["license_code"] = extract_license_from_text(body_text)],
                     [loc[j] EXCEPT !.body_text = body_text])
    /\ UNCHANGED mainVars

\* host_section = page.locator('section:has-text("Hôte")'), or the one of
\* "Votre hôte" when the first count is 0; the counts of lines 183 and 187
\* may raise
WHostSection(j) ==
    /\ wpc[j] = "host"
    /\ Ask(j, {"host_count"})
    /\ LET n == ListingPage(j).host
       IN  \/ /\ n[1] > 0 \/ n[2] > 0
              /\ WorkerGoes(j, "host_read", data[j], loc[j])
           \/ /\ n[1] = 0 /\ n[2] = 0
              /\ WorkerGoes(j, "fallback", data[j], loc[j])
           \/ WorkerRaise(j)
    /\ UNCHANGED mainVars

\* lines 188-210 and, when the fallback is not needed, the end of
\* extract_listing: the section's text, the host's name and the host's URL,
\* each read under its own try
WHostRead(j) ==
    /\ wpc[j] = "host_read"
    /\ Ask(j, {"host_text", "host_name", "host_link"})
    /\ LET host_text == TextOrEmpty(ListingPage(j).host_text)
           name_candidate == SafeInnerText(ListingPage(j).host_name)
           href == IF ListingPage(j).host_link = Broken THEN Absent
                   ELSE ListingPage(j).host_link
           d1 == IF name_candidate # <<>>
                    THEN [data[j] EXCEPT !["host_name"] = name_candidate] ELSE data[j]
              d2 == IF href # Absent
                    THEN [d1 EXCEPT !["host_url"] = SplitQuery(href)] ELSE d1
           l == [loc[j] EXCEPT !.host_text = host_text]
       IN  IF NeedsFallback(d2)
           THEN WorkerGoes(j, "fallback", d2, l)
           ELSE WorkerFinish(j, d2, host_text, loc[j].body_text) /\ loc' = [loc EXCEPT ![j] = l]
    /\ UNCHANGED mainVars

\* lines 213-231: the first /users/ anchor of the whole page, under one try,
\* and the end of extract_listing
WFallback(j) ==
    /\ wpc[j] = "fallback"
    /\ Ask(j, {"fallback"})
    /\ LET pg == ListingPage(j)
       IN  IF pg.fb_href # Absent
           THEN WorkerFinish(j, ApplyFallback(data[j], pg.fb_href, pg.fb_text),
                             loc[j].host_text, loc[j].body_text)
           ELSE WorkerFinish(j, data[j], loc[j].host_text, loc[j].body_text)
    /\ UNCHANGED <<mainVars, loc>>

\* finally: await page.close(), and the end of `async with sem`;
\* page.close() may raise, and the worker ends with its exception
WClose(j) ==
    /\ wpc[j] = "close"
    /\ pages' = CloseOnExit(wpage[j], wexc[j])
    /\ \/ /\ sem' = ReleaseOnExit(sem, wexc[j])
          /\ wpc' = [wpc EXCEPT ![j] = IF wexc[j] THEN "failed" ELSE "done"]
          /\ UNCHANGED wexc
       \/ /\ sem' = ReleaseOnExit(sem, TRUE)
          /\ wpc' = [wpc EXCEPT ![j] = "failed"]
          /\ wexc' = [wexc EXCEPT ![j] = TRUE]
    /\ UNCHANGED <<mainVars, wpage, data, loc, ops, results>>

\* asyncio.run cancels the tasks that still run once scrape_all has failed:
\* CancelledError is raised at the worker's await; no except clause of
\* extract_listing catches it
WCancel(j) ==
    /\ pc = "failed"
    /\ \/ /\ wpc[j] \in {"init", "waiting"}
          /\ wpc' = [wpc EXCEPT ![j] = "failed"]
          /\ UNCHANGED sem
       \/ /\ wpc[j] = "new_page"
          /\ wpc' = [wpc EXCEPT ![j] = "failed"]
          /\ sem' = ReleaseOnExit(sem, TRUE)
       \/ /\ wpc[j] \in {"goto", "click", "title", "body", "host", "host_read", "fallback"}
          /\ wpc' = [wpc EXCEPT ![j] = "close"]
          /\ UNCHANGED sem
    /\ wexc' = [wexc EXCEPT ![j] = TRUE]
    /\ UNCHANGED <<mainVars, pages, wpage, data, loc, ops, results>>

----------------------------------------------------------------------------
\* scrape_all, lines 234-298

\* A variant that keeps the lines as they are read, without line.strip().
read_search_urls_NoStrip(file) ==
    IF file = Absent THEN <<>>
    ELSE SelectSeq(file, LAMBDA l : l # <<>>)

\* read_search_urls, lines 18-27
read_search_urls(file) ==
    IF file = Absent THEN <<>>
    ELSE SelectSeq([i \in 1..Len(file) |-> Strip(file[i])], LAMBDA l : l # <<>>)

\* lines 235-247: no search URL: a message and return; else the browser is
\* launched
ReadSearchUrls ==
    /\ pc = "start"
    /\ search_urls' = read_search_urls(site.file)
    /\ IF search_urls' = <<>>
       THEN pc' = "no_urls" /\ UNCHANGED si
       ELSE pc' = "new_page" /\ si' = 1
    /\ UNCHANGED <<site, exc, page, searchVars, all_listing_urls, pages, workerVars, csv>>

\* lines 259-276: all_listing_urls = list(dict.fromkeys(all_listing_urls)),
\* sem = asyncio.Semaphore(MAX_CONCURRENT_PAGES), results = [], and gather
\* makes a task of worker(u) for every u
StartWorkers ==
    /\ pc = "dedupe"
    /\ all_listing_urls' = FromKeys(all_listing_urls)
    /\ sem' = MAX_CONCURRENT_PAGES
    /\ results' = <<>>
    /\ LET W == 1..Len(all_listing_urls')
       IN  /\ wpc' = [j \in W |-> "init"]
           /\ wexc' = [j \in W |-> FALSE]
           /\ wpage' = [j \in W |-> NoPage]
           /\ data' = [j \in W |-> <<>>]
           /\ loc' = [j \in W |-> NoLoc]
           /\ ops' = [j \in W |-> {}]
    /\ pc' = "gather"
    /\ UNCHANGED <<site, search_urls, exc, si, page, searchVars, pages, csv>>

\* A variant that returns as soon as one worker has returned.
Gathered_First(ws) == \E j \in ws : wpc[j] = "done"

\* asyncio.gather(*aws): every awaitable has returned
Gathered(ws) == \A j \in ws : wpc[j] = "done"

\* await asyncio.gather(...) returns once every worker has returned
GatherReturns ==
    /\ pc = "gather"
    /\ Gathered(Workers)
    /\ pc' = "browser_close"
    /\ UNCHANGED <<site, search_urls, exc, si, page, searchVars, all_listing_urls,
                   pages, workerVars, csv>>

\* await asyncio.gather(...) raises the first exception a worker raised
GatherRaises ==
    /\ pc = "gather"
    /\ \E j \in Workers : wpc[j] = "failed"
    /\ pc' = "failed"
    /\ exc' = TRUE
    /\ UNCHANGED <<site, search_urls, si, page, searchVars, all_listing_urls,
                   pages, workerVars, csv>>

\* await browser.close() and the end of `async with async_playwright()`
BrowserClose ==
    /\ pc = "browser_close"
    /\ pc' = "write_csv"
    /\ UNCHANGED <<site, search_urls, exc, si, page, searchVars, all_listing_urls,
                   pages, workerVars, csv>>

\* lines 280-298: the header, then a row per record of results
WriteCsv ==
    /\ pc = "write_csv"
    /\ csv' = <<"header">> \o results
    /\ pc' = "done"
    /\ UNCHANGED <<site, search_urls, exc, si, page, searchVars, all_listing_urls,
                   pages, workerVars>>

scrape_all ==
    \/ ReadSearchUrls \/ SearchNewPage \/ collect_listing_urls \/ SearchClosePage
    \/ StartWorkers \/ GatherReturns \/ GatherRaises \/ BrowserClose \/ WriteCsv

Start == \E j \in Workers : WStart(j)
Acquire == \E j \in Workers : WAcquire(j)
OpenPage == \E j \in Workers : WNewPage(j)
Goto == \E j \in Workers : WGoto(j)
ClickMore == \E j \in Workers : WClickMore(j)
Title == \E j \in Workers : WTitle(j)
Body == \E j \in Workers : WBody(j)
HostSection == \E j \in Workers : WHostSection(j)
HostRead == \E j \in Workers : WHostRead(j)
Fallback == \E j \in Workers : WFallback(j)
Extract == Goto \/ ClickMore \/ Title \/ Body \/ HostSection \/ HostRead \/ Fallback
Close == \E j \in Workers : WClose(j)
Cancel == \E j \in Workers : WCancel(j)

Next == scrape_all \/ Start \/ Acquire \/ OpenPage \/ Extract \/ Close \/ Cancel

----------------------------------------------------------------------------
\* The whole run, on a small site: two search pages that share a listing,
\* three listing pages.

RoomURLs == {SplitQuery(h) : h \in {g \in HrefPool : HasRooms(g)}}

Files == {Absent,
          <<<<"\n">>, <<" ", "\n">>>>,
          <<<<"s1", "\n">>>>,
          <<<<" ", "s1", "\n">>, <<"\n">>, <<"s2">>>>}

\* R1a is there at once and R2b after one scroll
Page1 == [appear |-> [h \in HrefPool |-> IF h = R1a THEN 0 ELSE IF h = R2b THEN 1
                                         ELSE MaxGrowth + 1],
          heights |-> [k \in 0..MaxGrowth |-> IF k = 0 THEN 700 ELSE 900]]

\* R1 and R3 are there at once
Page2 == [appear |-> [h \in HrefPool |-> IF h \in {R1, R3} THEN 0 ELSE MaxGrowth + 1],
          heights |-> [k \in 0..MaxGrowth |-> 700]]

Listing1 == [buttons |-> <<2, 0, 1>>, h1 |-> T_H1, title |-> T_TITLE, body |-> B_LIC,
             host |-> <<1, 0>>, host_text |-> H_STATS, host_name |-> N_HOST,
             host_link |-> U_HOST, fb_href |-> U_LINK, fb_text |-> N_LINK]

Listing2 == [buttons |-> <<0, 0, 0>>, h1 |-> Absent, title |-> T_TITLE, body |-> B_NUM,
             host |-> <<0, 0>>, host_text |-> Absent, host_name |-> Absent,
             host_link |-> Absent, fb_href |-> U_LINK, fb_text |-> N_LINK]

Listing3 == [buttons |-> <<0, 0, 0>>, h1 |-> Broken, title |-> <<>>, body |-> Broken,
             host |-> <<0, 1>>, host_text |-> <<>>, host_name |-> N_HOST,
             host_link |-> Absent, fb_href |-> Absent, fb_text |-> <<>>]

Init ==
    /\ \E file \in Files, year \in Years :
          site = [search |-> [u \in SearchURLs |-> IF u = S1 THEN Page1 ELSE Page2],
                  listing |-> [u \in RoomURLs |-> IF u = R1 THEN Listing1
                                                 ELSE IF u = R3 THEN Listing3 ELSE Listing2],
                  file |-> file,
                  year |-> year]
    /\ pc = "start"
    /\ search_urls = <<>>
    /\ exc = FALSE
    /\ si = 0
    /\ page = NoPage
    /\ seen = {}
    /\ last_height = -1
    /\ cstat = NoStat
    /\ all_listing_urls = <<>>
    /\ pages = [p \in {} |-> 0]
    /\ sem = 0
    /\ wpc = <<>>
    /\ wexc = <<>>
    /\ wpage = <<>>
    /\ data = <<>>
    /\ loc = <<>>
    /\ ops = <<>>
    /\ results = <<>>
    /\ csv = <<"absent">>

Spec == Init /\ [][Next]_vars

----------------------------------------------------------------------------
\* extract_listing on its own: one listing URL, every page of ListingPages,
\* the worker's page session just opened.

InitExtract ==
    /\ \E pg \in ListingPages, year \in Years :
          site = [NoSite EXCEPT !.listing = [u \in {R1} |-> pg], !.year = year]
    /\ pc = "gather"
    /\ search_urls = <<S1>>
    /\ exc = FALSE
    /\ si = 1
    /\ page = Unit("search", 1)
    /\ seen = {}
    /\ last_height = -1
    /\ cstat = NoStat
    /\ all_listing_urls = <<R1>>
    /\ pages = [p \in {Unit("listing", 1)} |-> [open |-> TRUE, users |-> {}]]
    /\ sem = MAX_CONCURRENT_PAGES - 1
    /\ wpc = <<"goto">>
    /\ wexc = <<FALSE>>
    /\ wpage = <<Unit("listing", 1)>>
    /\ data = <<NewData(R1, site.year)>>
    /\ loc = <<NoLoc>>
    /\ ops = <<{}>>
    /\ results = <<>>
    /\ csv = <<"absent">>

SpecExtract == InitExtract /\ [][Extract]_vars

----------------------------------------------------------------------------
\* Properties of the crawl

ListingSessions == {p \in DOMAIN pages : p.kind = "listing"}

OpenListingSessions == {p \in ListingSessions : pages[p].open}

\* C1: at no time are more than MAX_CONCURRENT_PAGES listing page sessions
\* open, whatever the interleaving of the workers, with more listing URLs
\* than slots.
C1_OpenSessionsBounded == Cardinality(OpenListingSessions) <= MAX_CONCURRENT_PAGES

\* C1 witness: there are more workers than slots, every slot is taken by an
\* open session and a worker waits.
C1_Witness ==
    /\ Cardinality(Workers) > MAX_CONCURRENT_PAGES
    /\ Cardinality(OpenListingSessions) = MAX_CONCURRENT_PAGES
    /\ \E j \in Workers : wpc[j] = "waiting"

Ended(j) == wpc[j] \in {"done", "failed"}

\* Stage 2 is over: the workers were started and each has returned or raised.
Stage2Over ==
    /\ pc \in {"gather", "browser_close", "write_csv", "done", "failed"}
    /\ Workers # {}
    /\ \A j \in Workers : Ended(j)

RecordsOf(u) == {i \in 1..Len(results) : results[i]["listing_url"] = u}

\* C2: when stage 2 is over and every worker's extraction has had its
\* navigation end (well, by a timeout or by another exception), results
\* holds exactly one record for each URL of the deduplicated list.
C2_OneRecordPerListing ==
    (Stage2Over /\ \A j \in Workers : loc[j].nav # "none")
        => \A j \in Workers : Cardinality(RecordsOf(all_listing_urls[j])) = 1

\* C3: extract_listing never raises: whatever sub-step fails, the worker
\* leaves extract_listing with a record appended to results.
C3_NeverPropagates ==
    \A j \in Workers :
        wpc[j] = "close" => ~wexc[j] /\ Cardinality(RecordsOf(all_listing_urls[j])) = 1

\* C4: with at least one search URL, no failure of a page operation of stage
\* 1 or of stage 2 aborts scrape_all before it writes the output file.
C4_CrawlNeverAborts == search_urls # <<>> => pc # "failed"

Others == Fields \ {"listing_url", "scraped_at"}

\* C5: when page.goto timed out, extract_listing has returned a record with
\* the given URL, a non-empty scraped_at and every other field empty, and the
\* session was asked nothing but the goto.
C5_TimeoutRecord ==
    \A j \in Workers :
        loc[j].nav = "timeout" =>
            /\ wpc[j] \in {"close", "done"}
            /\ ~wexc[j]
            /\ \E i \in 1..Len(results) : results[i] = data[j]
            /\ data[j]["listing_url"] = all_listing_urls[j]
            /\ data[j]["listing_url"] # <<>>
            /\ data[j]["scraped_at"] # <<>>
            /\ \A k \in Others : data[j][k] = <<>>
            /\ ops[j] = {"goto"}

\* C5 witness: the navigation to a page that has a title, a licence code and
\* a host link has timed out.
C5_Witness ==
    \E j \in Workers :
        /\ loc[j].nav = "timeout"
        /\ wpc[j] = "close"
        /\ ListingPage(j).h1 = T_H1
        /\ ListingPage(j).body = B_LIC
        /\ ListingPage(j).fb_href = U_LINK

\* The unit of work that owns session p has ended.
UnitEnded(p) ==
    IF p.kind = "search"
    THEN p.idx < si \/ pc \notin {"goto", "harvest", "scroll", "read_height", "close_page"}
    ELSE Ended(p.idx)

\* C6: once a unit of work has ended, by a return or by an exception of
\* collect_listing_urls or extract_listing, the page session it opened is
\* closed; and a session is asked operations by the unit that opened it only.
C6_SessionsClosedAndOwned ==
    \A p \in DOMAIN pages :
        /\ pages[p].users \subseteq {p}
        /\ UnitEnded(p) => ~pages[p].open

\* C6 witness: a search unit has ended, extract_listing has raised in a
\* worker that has ended since, another worker has returned, and their
\* sessions were used.
C6_Witness ==
    /\ \E p \in DOMAIN pages : p.kind = "search" /\ UnitEnded(p) /\ pages[p].users # {}
    /\ \E j \in Workers : wpc[j] = "failed" /\ wpage[j] # NoPage /\ ops[j] # {}
    /\ \E j \in Workers : wpc[j] = "done"

----------------------------------------------------------------------------
\* Stage 1 and the deduplication on their own: the two search URLs, every
\* pair of search pages of DiscoverPages, up to the start of stage 2.

\* Search pages of constant height whose listing anchors are in the DOM at
\* once, after one scroll or never; X is an anchor without the marker.
DiscoverPages ==
    [appear : {f \in [HrefPool -> 0..(MaxGrowth + 1)] :
                  /\ f[X] = 0
                  /\ f[R1] \in {0, MaxGrowth + 1}
                  /\ f[R3] \in {0, MaxGrowth + 1}
                  /\ f[R1a] \in {0, 1, MaxGrowth + 1}
                  /\ f[R2b] \in {0, 1, MaxGrowth + 1}},
     heights : {[k \in 0..MaxGrowth |-> 700]}]

InitStage1 ==
    /\ \E p1, p2 \in DiscoverPages :
          site = [NoSite EXCEPT !.search = [u \in SearchURLs |-> IF u = S1 THEN p1 ELSE p2]]
    /\ pc = "new_page"
    /\ search_urls = <<S1, S2>>
    /\ exc = FALSE
    /\ si = 1
    /\ page = NoPage
    /\ seen = {}
    /\ last_height = -1
    /\ cstat = NoStat
    /\ all_listing_urls = <<>>
    /\ pages = [p \in {} |-> 0]
    /\ sem = 0
    /\ wpc = <<>>
    /\ wexc = <<>>
    /\ wpage = <<>>
    /\ data = <<>>
    /\ loc = <<>>
    /\ ops = <<>>
    /\ results = <<>>
    /\ csv = <<"absent">>

Stage1 == SearchNewPage \/ collect_listing_urls \/ SearchClosePage \/ StartWorkers

SpecStage1 == InitStage1 /\ [][Stage1]_vars

\* The concatenation of the lists of ls.
RECURSIVE Concat(_)
Concat(ls) == IF ls = <<>> THEN <<>> ELSE Head(ls) \o Concat(Tail(ls))

\* The index of the first occurrence of x in l.
FirstIndex(l, x) == Least({i \in 1..Len(l) : l[i] = x})

\* The listing hrefs that the page of search URL u ever shows.
ListingHrefs(u) == {h \in HrefPool : HasRooms(h) /\ site.search[u].appear[h] <= MaxGrowth}

PerSearchResults == Concat(cstat.returned)

\* C11: the list handed to stage 2 has no duplicate, holds every URL that a
\* search returned and nothing else, in the order of first appearance in the
\* concatenation of the per-search results; its entries carry no query
\* string, and two hrefs of the search pages that differ only by their query
\* string, on one page or on two, give at most one entry.
C11_DedupedInFirstSeenOrder ==
    pc = "gather" =>
        /\ Distinct(all_listing_urls)
        /\ Range(all_listing_urls) = Range(PerSearchResults)
        /\ \A i, j \in 1..Len(all_listing_urls) :
               i < j => FirstIndex(PerSearchResults, all_listing_urls[i])
                            < FirstIndex(PerSearchResults, all_listing_urls[j])
        /\ \A i \in 1..Len(all_listing_urls) : "?" \notin Range(all_listing_urls[i])
        /\ \A u1, u2 \in SearchURLs : \A h1 \in ListingHrefs(u1), h2 \in ListingHrefs(u2) :
               SplitQuery(h1) = SplitQuery(h2) =>
                   Cardinality({i \in 1..Len(all_listing_urls) :
                                    all_listing_urls[i] = SplitQuery(h1)}) <= 1

\* C11 witness: both searches returned the URL of listing 1, the second one
\* after it harvested /rooms/1 and /rooms/1?a, the first one from /rooms/1?a
\* alone; the URL was not the first of the second search's list, and the
\* list handed to stage 2 has three entries.
C11_Witness ==
    /\ pc = "gather"
    /\ Len(cstat.returned) = 2
    /\ R1 \in Range(cstat.returned[1]) /\ R1 \in Range(cstat.returned[2])
    /\ cstat.returned[2][1] # R1
    /\ R1 \notin ListingHrefs(S1) /\ R1a \in ListingHrefs(S1)
    /\ {R1, R1a} \subseteq cstat.harvested
    /\ Len(all_listing_urls) = 3

SearchSessions == {p \in DOMAIN pages : p.kind = "search"}

OpenSearchSessions == {p \in SearchSessions : pages[p].open}

\* C12: stage 1 is sequential: at most one search page session is open at a
\* time, the sessions are opened in the order of the search URL list, one
\* per entry, and when the session of entry i+1 exists the session of entry
\* i is closed; collect_listing_urls works in the session of the current
\* entry.
C12_Stage1Sequential ==
    /\ Cardinality(OpenSearchSessions) <= 1
    /\ \A p \in SearchSessions :
           /\ p.idx \in 1..Len(search_urls)
           /\ p.idx <= si
           /\ \A i \in 1..p.idx : Unit("search", i) \in SearchSessions
    /\ \A p, q \in SearchSessions : p.idx < q.idx => ~pages[p].open
    /\ pc \in {"goto", "harvest", "scroll", "read_height", "close_page"} =>
           page = Unit("search", si) /\ page \in SearchSessions

\* C12 witness: the session of the second search URL is open and in use
\* while the session of the first one, which was used, is closed.
C12_Witness ==
    /\ Unit("search", 2) \in OpenSearchSessions
    /\ pc = "scroll"
    /\ pages[Unit("search", 2)].users # {}
    /\ pages[Unit("search", 1)].users # {}
    /\ ~pages[Unit("search", 1)].open

\* A line of the file that holds whitespace only.
BlankLine(l) == \A i \in 1..Len(l) : IsSpace(l[i])

\* The search URL file is absent or holds blank lines only.
NoSearchUrl == site.file = Absent \/ \A i \in 1..Len(site.file) : BlankLine(site.file[i])

\* C13: when the file is absent or holds only blank lines, scrape_all stops
\* right after read_search_urls: the list is empty, no page session was
\* opened, no worker was started, the output file was not created, and
\* nothing more happens; and scrape_all stops there in that case only.
C13_NoUrlsEndsEarly ==
    /\ (NoSearchUrl /\ pc # "start") =>
           /\ pc = "no_urls"
           /\ search_urls = <<>>
           /\ DOMAIN pages = {}
           /\ Workers = {}
           /\ results = <<>>
           /\ csv = <<"absent">>
           /\ ~ENABLED Next
    /\ pc = "no_urls" => NoSearchUrl

\* C13 witness: scrape_all has stopped on a file that exists and holds two
\* blank lines.
C13_Witness ==
    /\ pc = "no_urls"
    /\ site.file # Absent
    /\ Len(site.file) = 2

----------------------------------------------------------------------------
\* extract_license_from_text on its own: the step of extract_listing that
\* reads the text of body and applies it, on every text of LicenseTexts.

F_LIC   == <<"B", "U", "S", "-", "M", "A", "G", "-", "4", "2", "K", "D", "F">>
F_NUM   == <<"1", "3", "3", "3", "7", "0", "1">>
F_SHORT == <<"B", "U", "R", "-", "B", "E", "L", "-", "D", "W", "8">>
F_LONG  == <<"A", "B", "C", "-", "D", "E", "F", "-", "1", "2", "3", "4", "5", "6", "7">>
F_FIVE  == <<"1", "2", "3", "4", "5">>

LicenseFragments ==
    {F_LIC, F_NUM, F_SHORT, F_LONG, F_FIVE, <<"9">>, <<" ">>, <<"_">>, <<"x">>, <<"-">>}

\* The texts made of one, two or three fragments.
MaxFragments == 3

RECURSIVE TextsOf(_, _)
TextsOf(fragments, n) ==
    IF n = 0 THEN {<<>>}
    ELSE LET shorter == TextsOf(fragments, n - 1)
         IN  shorter \cup {f \o t : f \in fragments, t \in shorter}

LicenseTexts == TextsOf(LicenseFragments, MaxFragments)

\* extract_listing has navigated to a page without an h1 and without
\* buttons, has its title, and is about to read the text of body.
InitLicense ==
    /\ \E text \in LicenseTexts, year \in Years :
          site = [NoSite EXCEPT !.listing = [u \in {R1} |-> [Listing2 EXCEPT !.body = text]],
                                !.year = year]
    /\ pc = "gather"
    /\ search_urls = <<S1>>
    /\ exc = FALSE
    /\ si = 1
    /\ page = Unit("search", 1)
    /\ seen = {}
    /\ last_height = -1
    /\ cstat = NoStat
    /\ all_listing_urls = <<R1>>
    /\ pages = [p \in {Unit("listing", 1)} |-> [open |-> TRUE, users |-> {Unit("listing", 1)}]]
    /\ sem = MAX_CONCURRENT_PAGES - 1
    /\ wpc = <<"body">>
    /\ wexc = <<FALSE>>
    /\ wpage = <<Unit("listing", 1)>>
    /\ data = <<[NewData(R1, site.year) EXCEPT !["listing_title"] = T_TITLE]>>
    /\ loc = <<[NoLoc EXCEPT !.nav = "ok"]>>
    /\ ops = <<{"goto", "count", "wait", "h1", "title"}>>
    /\ results = <<>>
    /\ csv = <<"absent">>

SpecLicense == InitLicense /\ [][Body]_vars

\* s has the shape of a structured code: 3 upper-case letters, a hyphen, 3
\* upper-case letters, a hyphen, 4 to 6 upper-case letters or digits.
IsStructured(s) ==
    /\ Len(s) \in 12..14
    /\ \A k \in {1, 2, 3, 5, 6, 7} : s[k] \in Upper
    /\ s[4] = "-" /\ s[8] = "-"
    /\ \A k \in 9..Len(s) : s[k] \in Upper \cup Digit

\* s is a number of 6 to 8 digits.
IsNumber(s) == Len(s) \in 6..8 /\ \A k \in 1..Len(s) : s[k] \in Digit

\* The n characters of t from position i stand alone: a word boundary is on
\* each side.
Standalone(t, i, n) == i + n - 1 <= Len(t) /\ Boundary(t, i) /\ Boundary(t, i + n)

\* The <<position, length>> of the standalone structured codes of t, and of
\* its standalone numbers.
StructuredIn(t) ==
    {m \in (1..Len(t)) \X (12..14) :
        Standalone(t, m[1], m[2]) /\ IsStructured(SubSeq(t, m[1], m[1] + m[2] - 1))}

NumbersIn(t) ==
    {m \in (1..Len(t)) \X (6..8) :
        Standalone(t, m[1], m[2]) /\ IsNumber(SubSeq(t, m[1], m[1] + m[2] - 1))}

\* The occurrences of M that start first in the text.
FirstOf(t, M) ==
    {SubSeq(t, m[1], m[1] + m[2] - 1) : m \in {x \in M : \A y \in M : x[1] <= y[1]}}

\* C14: the licence code is the first standalone structured code of the text
\* when there is one, wherever the numbers of the text stand; else the first
\* standalone number of 6 to 8 digits; else the empty string.
C14_StructuredFirst ==
    \A j \in Workers :
        wpc[j] = "host" =>
            LET t == ListingPage(j).body
                r == data[j]["license_code"]
            IN  IF StructuredIn(t) # {} THEN r \in FirstOf(t, StructuredIn(t))
                ELSE IF NumbersIn(t) # {} THEN r \in FirstOf(t, NumbersIn(t))
                ELSE r = <<>>

\* C14 witness: a standalone number stands before the first structured code
\* of the text, and the structured code was returned.
C14_Witness ==
    \E j \in Workers :
        /\ wpc[j] = "host"
        /\ \E s \in StructuredIn(ListingPage(j).body), n \in NumbersIn(ListingPage(j).body) :
               n[1] < s[1]
        /\ data[j]["license_code"] = F_LIC

----------------------------------------------------------------------------
\* parse_host_stats on its own: the steps of extract_listing that read the
\* host section and apply it, on every text of HostTexts and every year of
\* ClockYears.

K_HOTE  == <<"H", "ô", "t", "e", " ", "d", "e", "p", "u", "i", "s">>
K_HOTE2 == <<"h", "o", "t", "e", " ", "d", "e", "p", "u", "i", "s">>
K_UPPER == <<"H", "Ô", "T", "E", " ", "D", "E", "P", "U", "I", "S">>
K_WIDE  == <<"H", "ô", "t", "e", " ", " ", "d", "e", "p", "u", "i", "s">>
P_RATE  == <<"4", ",", "9", " ", "s", "u", "r", " ", "5", "\n">>
E_SINCE == <<" ", "H", "ô", "t", "e", " ", "d", "e", "p", "u", "i", "s", " ", "1", "9", "9", "9">>

\* a text before the words, the words, the whitespace, the digits, a text after
HostTexts ==
    {p \o k \o w \o y \o e :
        p \in {<<>>, <<"x", " ">>, P_RATE},
        k \in {K_HOTE, K_HOTE2, K_UPPER, K_WIDE},
        w \in {<<>>, <<" ">>, <<"\n", " ">>, <<"nbsp">>},
        y \in {<<"2", "0", "1", "5">>, <<"2", "0", "3", "0">>, <<"0", "0", "0", "0">>,
               <<"9", "9", "9", "9">>, <<"2", "0", "1">>, <<"2", "0", "1", "5", "5">>},
        e \in {<<>>, E_SINCE}}

\* dt.datetime.utcnow().year
ClockYears == {2014, 2015, 2026, 9999}

\* extract_listing has navigated to a page with a host section, has its
\* title and the (empty) text of body, and is about to read the section.
InitHostStats ==
    /\ \E text \in HostTexts, name \in {Absent, N_HOST}, year \in ClockYears :
          site = [NoSite EXCEPT
                    !.listing = [u \in {R1} |->
                                    [Listing1 EXCEPT !.buttons = <<0, 0, 0>>, !.body = <<>>,
                                                     !.host_text = text, !.host_name = name,
                                                     !.fb_href = Absent, !.fb_text = <<>>]],
                    !.year = year]
    /\ pc = "gather"
    /\ search_urls = <<S1>>
    /\ exc = FALSE
    /\ si = 1
    /\ page = Unit("search", 1)
    /\ seen = {}
    /\ last_height = -1
    /\ cstat = NoStat
    /\ all_listing_urls = <<R1>>
    /\ pages = [p \in {Unit("listing", 1)} |-> [open |-> TRUE, users |-> {Unit("listing", 1)}]]
    /\ sem = MAX_CONCURRENT_PAGES - 1
    /\ wpc = <<"host_read">>
    /\ wexc = <<FALSE>>
    /\ wpage = <<Unit("listing", 1)>>
    /\ data = <<[NewData(R1, site.year) EXCEPT !["listing_title"] = Strip(T_H1)]>>
    /\ loc = <<[NoLoc EXCEPT !.nav = "ok"]>>
    /\ ops = <<{"goto", "count", "wait", "h1", "body", "host_count"}>>
    /\ results = <<>>
    /\ csv = <<"absent">>

SpecHostStats == InitHostStats /\ [][HostRead \/ Fallback]_vars

\* The value of a decimal digit, and of a string of four of them.
DigitValue(c) == CHOOSE d \in 0..9 : DigitChars[d + 1] = c

YearValue(s) ==
    1000 * DigitValue(s[1]) + 100 * DigitValue(s[2]) + 10 * DigitValue(s[3]) + DigitValue(s[4])

\* The positions g of t at which four digits stand that follow the words
\* "hôte depuis" or "hote depuis", in any case, and at least one whitespace.
StartYearsIn(t) ==
    {g \in 13..(Len(t) - 3) :
        /\ \A k \in 0..3 : t[g + k] \in Digit
        /\ \E i \in 1..(g - 12) :
              /\ \A k \in 1..11 : SameLetter(t[i + k - 1], K_HOTE[k])
                                  \/ SameLetter(t[i + k - 1], K_HOTE2[k])
              /\ \A k \in (i + 11)..(g - 1) : IsWhite(t[k])}

\* s writes the natural number n in decimal: digits only, no sign, no
\* leading zero.
WritesNatural(s, n) ==
    /\ s # <<>>
    /\ \A k \in 1..Len(s) : s[k] \in Digit
    /\ Len(s) > 1 => s[1] # "0"
    /\ ParseInt(s) = n

\* C15: when extract_listing returned, host_years is empty if the host text
\* has no start year after "Hôte depuis"; else, with y the first start year
\* of the text and Y the year of the clock, it writes Y - y in decimal when
\* y <= Y and 0 when y is later than Y.
C15_YearsFlooredAtZero ==
    \A j \in Workers :
        (wpc[j] = "close" /\ ~wexc[j]) =>
            LET t == ListingPage(j).host_text
                r == data[j]["host_years"]
                y == YearValue(SubSeq(t, Least(StartYearsIn(t)), Least(StartYearsIn(t)) + 3))
            IN  IF StartYearsIn(t) = {} THEN r = <<>>
                ELSE WritesNatural(r, IF y <= site.year THEN site.year - y ELSE 0)

\* C15 witness: the start year of the text is later than the year of the
\* clock, and host_years is "0".
C15_Witness ==
    \E j \in Workers :
        /\ wpc[j] = "close"
        /\ StartYearsIn(ListingPage(j).host_text) # {}
        /\ YearValue(SubSeq(ListingPage(j).host_text,
                            Least(StartYearsIn(ListingPage(j).host_text)),
                            Least(StartYearsIn(ListingPage(j).host_text)) + 3)) > site.year
        /\ data[j]["host_years"] = <<"0">>

----------------------------------------------------------------------------
\* The whole run under the scheduling of the event loop: a task that can
\* run is resumed, and an awaited page operation returns or raises.

SpecFair == Spec /\ WF_vars(Next)

\* C16: every worker that waits for a slot of the limiter acquires one, and
\* stage 2 completes: every worker returns and gather returns.
C16_WaitersAcquireStage2Completes ==
    /\ \A j \in 1..Cardinality(RoomURLs) :
           (j \in DOMAIN wpc /\ wpc[j] = "waiting") ~> (j \in DOMAIN wpc /\ wpc[j] = "new_page")
    /\ (pc = "gather") ~> (pc = "browser_close" /\ \A j \in Workers : wpc[j] = "done")

----------------------------------------------------------------------------
\* Properties of the extraction and of the run

\* C17: host_name and host_url each keep their first non-empty value: the
\* fallback of lines 213-223 replaces neither a host_url nor a host_name
\* that the host section gave.
C17_FallbackKeepsSectionValues ==
    [][\A j \in Workers : \A k \in {"host_name", "host_url"} :
           (wpc[j] = "fallback" /\ data[j][k] # <<>>) => data'[j][k] = data[j][k]]_vars

\* The session of the unit of work was asked an operation: the unit has
\* navigated, or tried to.
HasNavigated(unit) == unit \in DOMAIN pages /\ pages[unit].users # {}

\* No unit of work is about to navigate a second time, and a worker whose
\* navigation timed out has asked its session nothing else, has appended its
\* record and is in its finally or has ended.
NoRetry ==
    /\ pc = "goto" => ~HasNavigated(Unit("search", si))
    /\ Workers # {} => Distinct(all_listing_urls)
    /\ \A j \in Workers :
           /\ wpc[j] = "goto" => ~HasNavigated(Unit("listing", j)) /\ "goto" \notin ops[j]
           /\ loc[j].nav = "timeout" =>
                  /\ wpc[j] \in {"close", "done", "failed"}
                  /\ ops[j] = {"goto"}
                  /\ Cardinality(RecordsOf(all_listing_urls[j])) = 1

\* C18: there is no retry: the entries of the search URL list are taken in
\* order, each navigated to in a session that was asked nothing before, and
\* a worker that has navigated, also one whose navigation timed out, never
\* comes back to the navigation; after a timeout it has returned its record.
C18_NoRetry ==
    [][/\ NoRetry'
       /\ si' >= si
       /\ pc' = "goto" => pc \in {"new_page", "goto"}
       /\ \A j \in Workers : "goto" \in ops[j] => wpc'[j] # "goto"]_vars

\* C18 witness: two search URLs were navigated to, and a worker whose
\* navigation timed out has ended while another one still extracts.
C18_Witness ==
    /\ Len(search_urls) = 2
    /\ HasNavigated(Unit("search", 1)) /\ HasNavigated(Unit("search", 2))
    /\ \E j, k \in Workers :
           /\ loc[j].nav = "timeout" /\ wpc[j] = "done"
           /\ wpc[k] \in {"click", "title", "body", "host"}

\* The workers inside the `async with sem` block: the slot was acquired and
\* sem.release() has not run.
InsideSem ==
    {j \in Workers : wpc[j] \in {"new_page", "goto", "click", "title", "body", "host",
                                 "host_read", "fallback", "close"}}

\* C19: in stage 2 the free slots and the workers inside the block add up to
\* MAX_CONCURRENT_PAGES, and the number of free slots is never negative:
\* every exit of the block, by a return or by an exception of
\* context.new_page, extract_listing or page.close, gives the slot back.
C19_SlotsConserved ==
    Workers # {} =>
        /\ sem + Cardinality(InsideSem) = MAX_CONCURRENT_PAGES
        /\ sem >= 0

\* C19 witness: before gather has raised, one worker has ended by an
\* exception of context.new_page, one by an exception of extract_listing,
\* one by an exception of page.close after its record was appended, and
\* every slot is free.
C19_Witness ==
    /\ pc = "gather"
    /\ sem = MAX_CONCURRENT_PAGES
    /\ \E a, b, c \in Workers :
           /\ wpc[a] = "failed" /\ wpage[a] = NoPage
           /\ wpc[b] = "failed" /\ wpage[b] # NoPage /\ RecordsOf(all_listing_urls[b]) = {}
           /\ wpc[c] = "failed" /\ RecordsOf(all_listing_urls[c]) # {}

\* Stage 1 is over: every entry of the search URL list was processed, no
\* search session is open and the list of listing URLs has no duplicate.
Stage1Over ==
    /\ si = Len(search_urls)
    /\ \A i \in 1..Len(search_urls) : Unit("search", i) \in SearchSessions
    /\ OpenSearchSessions = {}
    /\ Distinct(all_listing_urls)
    /\ pc \in {"gather", "browser_close", "write_csv", "done", "failed"}

\* Stage 2 has begun: a worker has left its start, a listing session exists
\* or a record was appended.
Stage2Begun ==
    \/ \E j \in Workers : wpc[j] # "init"
    \/ ListingSessions # {}
    \/ results # <<>>

StagesInOrder ==
    /\ Stage2Begun => Stage1Over
    /\ pc \in {"new_page", "goto", "harvest", "scroll", "read_height", "close_page", "dedupe"}
           => ~Stage2Begun
    /\ csv # <<"absent">> =>
           /\ \A j \in Workers : wpc[j] = "done"
           /\ OpenListingSessions = {}
           /\ csv = <<"header">> \o results

\* C20: the stages do not overlap: a worker leaves its start, a listing
\* session is opened and a record is appended only once stage 1 is over;
\* the output is written once every worker has returned and holds the
\* records of results, and results never changes after it is written (a
\* record is appended while gather waits, or after it raised, when no output
\* is written).
C20_StagesNeverOverlap ==
    [][/\ StagesInOrder'
       /\ csv # <<"absent">> => results' = results /\ csv' = csv
       /\ results' # results => pc \in {"gather", "failed"} /\ csv = <<"absent">>]_vars

\* C20 witness: the output holds a row per listing of the two searches; the
\* records were appended in another order than that of the listing URLs.
C20_Witness ==
    /\ pc = "done"
    /\ Len(search_urls) = 2
    /\ Len(csv) = 1 + Len(all_listing_urls)
    /\ Len(all_listing_urls) = 3
    /\ csv[2]["listing_url"] # all_listing_urls[1]

====
